---------------------------- MODULE Spec2Model ----------------------------
(***************************************************************************)
(* Renormalizer: the Model classes (renormalizer/model/model.py) and the   *)
(* spectra job base (renormalizer/spectra/base.py) as state machines.      *)
(*                                                                         *)
(* One group of variables per object of the program:                       *)
(*   Model.mpos cache          mpos, built, first, ncalls, lastCall        *)
(*   SpectraTdMpsJobBase       _autocorr, jobState, nsteps, stepsDone,     *)
(*                             log, held                                   *)
(*   Model.__init__            ctor                                        *)
(*   HolsteinModel/SpinBoson   hol                                         *)
(*   VibronicModel             vib                                         *)
(*   independent spectra jobs  runs                                        *)
(*   HolsteinModel.switch_scheme  sw                                       *)
(*   ephMPS Phonon             ph                                          *)
(* Each group has its own specification (SpecCache, SpecJob, ...); the     *)
(* other groups stay at their idle value there.                            *)
(***************************************************************************)
EXTENDS Integers, Sequences, FiniteSets, TLC

VARIABLES
    mpos,       \* Model.mpos: cache key -> compiled operator object
    built,      \* history: key -> number of operators a builder returned for it
    first,      \* history: key -> the object the first successful build stored
    ncalls,     \* history: number of get_mpos calls so far
    lastCall,   \* history: what the latest get_mpos call saw and returned
    _autocorr,  \* SpectraTdMpsJobBase._autocorr: the list of samples
    jobState,   \* the job's position in Initialized -> Evolving -> Finalized
    nsteps,     \* the nsteps of the running evolve(dt, nsteps)
    stepsDone,  \* steps of that evolve completed so far
    log,        \* history: one entry per process_mps call, in call order
    held,       \* the array a caller got from the autocorr property
    ctor,       \* the latest Model(...) construction: arguments and outcome
    hol,        \* the latest recipe construction (Holstein / spin-boson)
    vib,        \* the latest VibronicModel construction
    runs,       \* independent spectra jobs and the lists they own
    sw,         \* the model a switch_scheme call returned
    ph          \* the latest Phonon and its gs_mps tensors

cacheVars == <<mpos, built, first, ncalls, lastCall>>
jobVars   == <<_autocorr, jobState, nsteps, stepsDone, log, held>>
vars      == <<mpos, built, first, ncalls, lastCall,
               _autocorr, jobState, nsteps, stepsDone, log, held,
               ctor, hol, vib, runs, sw, ph>>

(***************************************************************************)
(* Small helpers.                                                          *)
(***************************************************************************)
Range(f) == {f[x] : x \in DOMAIN f}

Max(S) == CHOOSE x \in S : \A y \in S : y <= x

Min(S) == CHOOSE x \in S : \A y \in S : x <= y

\* dict()
EmptyDict == [k \in {} |-> 0]

(***************************************************************************)
(* Model.mpos and Model.get_mpos                                           *)
(***************************************************************************)
\* Bounds of the cache model.
NumKeys == 2

MaxCalls == 4

Keys == 1..NumKeys

\* The builder functions a caller may pass as `fun`.
Funs == {"f", "g"}

\* Model.__init__: self.mpos = dict()
InitCache ==
    /\ mpos = EmptyDict
    /\ built = [k \in Keys |-> 0]
    /\ first = EmptyDict
    /\ ncalls = 0
    /\ lastCall = [made |-> FALSE, key |-> 0, fun |-> "f", present |-> FALSE,
                   invokedFun |-> FALSE, ret |-> {}]

\* Mutant of InCache: the membership test always fails (a rebuild on every call).
InCacheNever(key) == FALSE

\* `key not in self.mpos`, negated
InCache(key) == key \in DOMAIN mpos

\* get_mpos(key, fun). `ok` is whether fun(self) returns (a fresh object, with
\* an identity of its own) or raises, in which case nothing is stored.
get_mpos(key, fun, ok) ==
    /\ ncalls < MaxCalls
    /\ ncalls' = ncalls + 1
    /\ IF ~InCache(key)
       THEN IF ok
            THEN LET obj == [id |-> ncalls + 1, by |-> fun]
                 IN  /\ mpos' = [k \in DOMAIN mpos \cup {key} |->
                                    IF k = key THEN obj ELSE mpos[k]]
                     /\ built' = [built EXCEPT ![key] = @ + 1]
                     /\ first' = IF key \in DOMAIN first THEN first
                                 ELSE [k \in DOMAIN first \cup {key} |->
                                          IF k = key THEN obj ELSE first[k]]
                     /\ lastCall' = [made |-> TRUE, key |-> key, fun |-> fun,
                                     present |-> key \in DOMAIN mpos,
                                     invokedFun |-> TRUE, ret |-> {obj}]
            ELSE /\ UNCHANGED <<mpos, built, first>>
                 /\ lastCall' = [made |-> TRUE, key |-> key, fun |-> fun,
                                 present |-> key \in DOMAIN mpos,
                                 invokedFun |-> TRUE, ret |-> {}]
       ELSE /\ UNCHANGED <<mpos, built, first>>
            /\ lastCall' = [made |-> TRUE, key |-> key, fun |-> fun,
                            present |-> key \in DOMAIN mpos,
                            invokedFun |-> FALSE, ret |-> {mpos[key]}]

(***************************************************************************)
(* SpectraTdMpsJobBase: _autocorr, process_mps, autocorr.                  *)
(* The stepping loop is TdMpsJob.evolve, which calls process_mps once      *)
(* after every completed step and lets a failing step's error propagate.   *)
(***************************************************************************)
\* Bounds of the job model.
NumFt == 2

MaxSteps == 2

MaxDirect == 1

\* The values braket_pair.ft may take (complex samples, abstracted).
FtValues == 1..NumFt

\* What a caller writes into an array it holds: no sample has this value.
Overwritten == Min(FtValues) - 1

\* SpectraTdMpsJobBase.__init__: self._autocorr = []
InitJob ==
    /\ _autocorr = <<>>
    /\ jobState = "Initialized"
    /\ nsteps = 0
    /\ stepsDone = 0
    /\ log = <<>>
    /\ held = [valid |-> FALSE, alias |-> FALSE, written |-> FALSE, data |-> <<>>]

\* Mutant of process_mps: the sample is put in front of the list.
process_mps_front(samples, ft) == <<ft>> \o samples

\* process_mps(braket_pair): self._autocorr.append(braket_pair.ft)
process_mps(samples, ft) == Append(samples, ft)

\* Mutant of autocorr: the property hands out the list itself.
autocorr_alias == [valid |-> TRUE, alias |-> TRUE, written |-> FALSE, data |-> _autocorr]

\* autocorr: np.array(self._autocorr), a new array on every read
autocorr == [valid |-> TRUE, alias |-> FALSE, written |-> FALSE, data |-> _autocorr]

\* evolve(dt, nsteps) is entered: Initialized -> Evolving.
evolve(n) ==
    /\ jobState = "Initialized"
    /\ jobState' = "Evolving"
    /\ nsteps' = n
    /\ stepsDone' = 0
    /\ UNCHANGED <<_autocorr, log, held>>

\* One iteration of the loop. A step that completes (ok) hands its pair to
\* process_mps; the last one finalizes the job. A step that fails raises out
\* of evolve: process_mps is not reached and the job object stays as it is.
evolve_step(ft, ok) ==
    /\ jobState = "Evolving"
    /\ stepsDone < nsteps
    /\ IF ok
       THEN /\ _autocorr' = process_mps(_autocorr, ft)
            /\ log' = Append(log, [ft |-> ft, step |-> stepsDone + 1])
            /\ stepsDone' = stepsDone + 1
            /\ jobState' = IF stepsDone + 1 = nsteps THEN "Finalized" ELSE "Evolving"
       ELSE /\ jobState' = "Aborted"
            /\ UNCHANGED <<_autocorr, log, stepsDone>>
    /\ UNCHANGED <<nsteps, held>>

\* The number of process_mps calls that did not come from a step.
NumDirect == Cardinality({i \in 1..Len(log) : log[i].step = 0})

\* process_mps called on the job directly: the method tests no state.
process_mps_call(ft) ==
    /\ NumDirect < MaxDirect
    /\ _autocorr' = process_mps(_autocorr, ft)
    /\ log' = Append(log, [ft |-> ft, step |-> 0])
    /\ UNCHANGED <<jobState, nsteps, stepsDone, held>>

\* A caller reads job.autocorr and keeps the result.
read_autocorr ==
    /\ held' = autocorr
    /\ UNCHANGED <<_autocorr, jobState, nsteps, stepsDone, log>>

\* The caller writes into the array it holds. The write reaches the job's
\* list only if the array is the list itself.
write_held(i) ==
    /\ held.valid
    /\ ~held.written
    /\ i \in 1..Len(held.data)
    /\ held' = [held EXCEPT !.data[i] = Overwritten, !.written = TRUE]
    /\ IF held.alias
       THEN _autocorr' = [_autocorr EXCEPT ![i] = Overwritten]
       ELSE UNCHANGED _autocorr
    /\ UNCHANGED <<jobState, nsteps, stepsDone, log>>

(***************************************************************************)
(* Python values.  A dict is the sequence of its <<key, value>> items in   *)
(* insertion order (keys distinct); a DoF name "e_3" is <<"e", 3>>, which  *)
(* is what name.split("_") takes apart.                                    *)
(***************************************************************************)
DictKeys(d) == {d[i][1] : i \in DOMAIN d}

DictValues(d) == {d[i][2] : i \in DOMAIN d}

DictHas(d, k) == \E i \in DOMAIN d : d[i][1] = k

DictGet(d, k) == d[CHOOSE i \in DOMAIN d : d[i][1] = k][2]

\* d[k] = v: an existing key keeps its place, a new one goes last.
DictSet(d, k, v) ==
    IF DictHas(d, k)
    THEN [i \in DOMAIN d |-> IF d[i][1] = k THEN <<k, v>> ELSE d[i]]
    ELSE Append(d, <<k, v>>)

\* f"e_{i}", f"v_{i}"
Dof(kind, i) == <<kind, i>>

(***************************************************************************)
(* Model.__init__ and the DoF properties.                                  *)
(***************************************************************************)
\* The basis classes of renormalizer.utils.basis the recipes use.
BasisKinds == {"BasisSimpleElectron", "BasisSHO", "BasisHalfSpin", "BasisMultiElectronVac"}

\* b.multi_dof
multi_dof(b) == b = "BasisMultiElectronVac"

\* for i, o in enumerate(order): self.order[o] = i   (entries i.. of the list)
RECURSIVE OrderFromList(_, _, _)
OrderFromList(l, i, acc) ==
    IF i > Len(l) THEN acc
    ELSE OrderFromList(l, i + 1, DictSet(acc, l[i], i - 1))

\* for dof_name, dof_idx in self.order.items(): self.basis[dof_idx] = basis[dof_name]
\* (items i.. of the order). A name the basis dict lacks is a KeyError.
RECURSIVE FillBasis(_, _, _, _)
FillBasis(order, basisDict, i, acc) ==
    IF i > Len(order) THEN [outcome |-> "ok", basis |-> acc]
    ELSE IF order[i][1] \notin DOMAIN basisDict
         THEN [outcome |-> "KeyError", basis |-> <<>>]
         ELSE FillBasis(order, basisDict, i + 1,
                        [acc EXCEPT ![order[i][2] + 1] = basisDict[order[i][1]]])

\* What construction leaves when it raises.
Raised(err) ==
    [outcome |-> err, order |-> <<>>, basis |-> <<>>, model |-> {},
     multi_dof_basis |-> FALSE]

\* not (min(order_value_set) != 0 or max(order_value_set) != len(order_value_set) - 1)
OrderValuesContinuous(order_value_set) ==
    ~(\/ Min(order_value_set) # 0
      \/ Max(order_value_set) # Cardinality(order_value_set) - 1)

\* Model.__init__(order, basis, model): the object's fields, or the error
\* raised. order is [form, items]: a dict, or a list of names; basis is
\* [form, list, dict]; model is stored as it is given.
ModelInit(order, basis, model) ==
    LET self_order == IF order.form = "dict" THEN order.items
                      ELSE OrderFromList(order.items, 1, <<>>)
        order_value_set == DictValues(self_order)
        filled ==
            IF basis.form = "list" THEN [outcome |-> "ok", basis |-> basis.list]
            ELSE IF order_value_set = {}
                 THEN [outcome |-> "ValueError", basis |-> <<>>]  \* min() of an empty set
            ELSE IF ~OrderValuesContinuous(order_value_set)
                 THEN [outcome |-> "ValueError", basis |-> <<>>]
            ELSE FillBasis(self_order, basis.dict, 1,
                           [k \in 1..(Max(order_value_set) + 1) |-> "None"])
    IN  IF filled.outcome # "ok" THEN Raised(filled.outcome)
        ELSE [outcome |-> "ok", order |-> self_order, basis |-> filled.basis,
              model |-> model,
              multi_dof_basis |-> \E k \in DOMAIN filled.basis : multi_dof(filled.basis[k])]

\* nsite: len(self.basis)
nsite(m) == Len(m.basis)

\* The indices int(key.split("_")[1]) of the order keys of one kind, as the
\* loop of e_dofs / v_dofs collects them.
DofIndices(m, kind) == {k[2] : k \in {n \in DictKeys(m.order) : n[1] = kind}}

\* assert sorted(dofs) == list(range(len(dofs)))   (the keys are distinct)
DofsContiguous(m, kind) ==
    DofIndices(m, kind) = 0..(Cardinality(DofIndices(m, kind)) - 1)

\* e_dofs / v_dofs: the names of the kind, or the AssertionError.
x_dofs(m, kind) ==
    IF DofsContiguous(m, kind)
    THEN [outcome |-> "ok",
          dofs |-> [i \in 1..Cardinality(DofIndices(m, kind)) |-> Dof(kind, i - 1)]]
    ELSE [outcome |-> "AssertionError", dofs |-> <<>>]

e_dofs(m) == x_dofs(m, "e")

v_dofs(m) == x_dofs(m, "v")

\* Bounds of the arguments a caller passes to Model(...).
NumCtorDofs == 3

MaxIdx == 2

MaxBasisLen == 3

\* The names a caller uses: e_0, v_0, v_1, ...
CtorDofs == {Dof("e", 0)} \cup {Dof("v", i) : i \in 0..(NumCtorDofs - 2)}

\* The sequences of distinct elements of S.
RECURSIVE DistinctSeqs(_)
DistinctSeqs(S) ==
    {<<>>} \cup UNION {{<<x>> \o t : t \in DistinctSeqs(S \ {x})} : x \in S}

\* Every dict over the names with values in 0..MaxIdx.
CtorOrderDicts ==
    UNION {[1..Len(ks) -> 0..MaxIdx] : ks \in DistinctSeqs(CtorDofs)}

CtorOrderArgs ==
    {[form |-> "dict", items |-> [i \in DOMAIN ks |-> <<ks[i], f[i]>>]] :
        <<ks, f>> \in {p \in DistinctSeqs(CtorDofs) \X CtorOrderDicts :
                          DOMAIN p[1] = DOMAIN p[2]}}
    \cup {[form |-> "list", items |-> l] :
            l \in UNION {[1..n -> CtorDofs] : n \in 0..2}}

\* The basis class a caller gives a name: electronic or oscillator.
BasisFor(dof) == IF dof[1] = "e" THEN "BasisSimpleElectron" ELSE "BasisSHO"

CtorBasisArgs ==
    {[form |-> "list", list |-> l, dict |-> EmptyDict] :
        l \in UNION {[1..n -> {"BasisSimpleElectron", "BasisSHO"}] : n \in 0..MaxBasisLen}}
    \cup {[form |-> "dict", list |-> <<>>, dict |-> [d \in D |-> BasisFor(d)]] :
            D \in SUBSET CtorDofs}

\* Term maps of no term or of one term on one DoF.
CtorModelArgs == {{}} \cup {{<<d>>} : d \in CtorDofs}

InitCtor == ctor = [made |-> FALSE]

\* Model(order, basis, model), once per behaviour.
construct_model(order, basis, model) ==
    /\ ~ctor.made
    /\ ctor' = [made |-> TRUE, orderForm |-> order.form, basisForm |-> basis.form,
             m |-> ModelInit(order, basis, model)]

(***************************************************************************)
(* Coupling matrices.  An ndarray of shape (n, n) is [n, a], a indexed by  *)
(* <<row, column>> from 0.                                                 *)
(***************************************************************************)
Idx(n) == (0..(n - 1)) \X (0..(n - 1))

Abs(x) == IF x < 0 THEN 0 - x ELSE x

\* np.diag(v, k) for a 1-D v: v on the k-th diagonal of a square matrix of
\* side len(v) + |k|, zero elsewhere.
np_diag(v, k) ==
    LET n == Len(v) + Abs(k)
    IN  [n |-> n,
         a |-> [p \in Idx(n) |->
                   IF p[2] - p[1] = k
                   THEN v[(IF k >= 0 THEN p[1] ELSE p[2]) + 1]
                   ELSE 0]]

\* The sum of two arrays of one shape.
np_add(x, y) == [n |-> x.n, a |-> [p \in Idx(x.n) |-> x.a[p] + y.a[p]]]

\* j_matrix[-1, 0] = j_matrix[0, -1] = j_constant_au
SetCorners(x, v) ==
    [x EXCEPT !.a = [p \in Idx(x.n) |->
                        IF p = <<x.n - 1, 0>> \/ p = <<0, x.n - 1>> THEN v ELSE x.a[p]]]

\* Mutant of construct_j_matrix: the periodic corners are never set.
construct_j_matrix_open(mol_num, j_constant_au, periodic) ==
    IF mol_num - 1 < 0
    THEN [outcome |-> "ValueError", mat |-> [n |-> 0, a |-> EmptyDict]]
    ELSE LET j_list == [i \in 1..(mol_num - 1) |-> j_constant_au]
         IN  [outcome |-> "ok", mat |-> np_add(np_diag(j_list, 0 - 1), np_diag(j_list, 1))]

\* construct_j_matrix(mol_num, j_constant, periodic); np.ones of a negative
\* length raises ValueError.
construct_j_matrix(mol_num, j_constant_au, periodic) ==
    IF mol_num - 1 < 0
    THEN [outcome |-> "ValueError", mat |-> [n |-> 0, a |-> EmptyDict]]
    ELSE LET j_list == [i \in 1..(mol_num - 1) |-> j_constant_au]
             j_matrix == np_add(np_diag(j_list, 0 - 1), np_diag(j_list, 1))
         IN  [outcome |-> "ok",
              mat |-> IF periodic THEN SetCorners(j_matrix, j_constant_au) ELSE j_matrix]

\* set(self.j_matrix.ravel())
Entries(mat) == {mat.a[p] : p \in Idx(mat.n)}

\* HolsteinModel.j_constant: the value returned, or the error raised.
\* set().pop() raises KeyError.
j_constant(mat) ==
    LET j_set == Entries(mat)
    IN  IF Cardinality(j_set) = 0
        THEN [outcome |-> "KeyError", value |-> 0]
        ELSE IF Cardinality(j_set) = 2 /\ 0 \in j_set
        THEN [outcome |-> "ok", value |-> CHOOSE v \in j_set \ {0} : TRUE]
        ELSE [outcome |-> "ValueError", value |-> 0]

(***************************************************************************)
(* HolsteinModel.__init__.  mol_list is given by the number of phonon      *)
(* modes of each molecule; imol, iph and the sites count from 0.           *)
(***************************************************************************)
\* basis.insert(i, x)
ListInsert(l, i, x) == SubSeq(l, 1, i) \o <<x>> \o SubSeq(l, i + 1, Len(l))

\* Mutant of Scheme123Ph: idx is not advanced after a mode.
RECURSIVE Scheme123PhSameSite(_, _, _, _)
Scheme123PhSameSite(st, imol, iph, nph) ==
    IF iph >= nph THEN st
    ELSE Scheme123PhSameSite(
            [order   |-> DictSet(st.order, Dof("v", st.nv), st.idx),
             mapping |-> DictSet(st.mapping, <<imol, iph>>, Dof("v", st.nv)),
             basis   |-> Append(st.basis, "BasisSHO"),
             idx     |-> st.idx,
             nv      |-> st.nv + 1,
             n_left_ph |-> st.n_left_ph],
            imol, iph + 1, nph)

\* Scheme 1-3, the inner loop: for iph, ph in enumerate(mol.ph_list)
RECURSIVE Scheme123Ph(_, _, _, _)
Scheme123Ph(st, imol, iph, nph) ==
    IF iph >= nph THEN st
    ELSE Scheme123Ph(
            [order   |-> DictSet(st.order, Dof("v", st.nv), st.idx),
             mapping |-> DictSet(st.mapping, <<imol, iph>>, Dof("v", st.nv)),
             basis   |-> Append(st.basis, "BasisSHO"),
             idx     |-> st.idx + 1,
             nv      |-> st.nv + 1,
             n_left_ph |-> st.n_left_ph],
            imol, iph + 1, nph)

\* Scheme 1-3, the outer loop: for imol, mol in enumerate(mol_list)
RECURSIVE Scheme123Mol(_, _, _)
Scheme123Mol(st, mol_list, imol) ==
    IF imol >= Len(mol_list) THEN st
    ELSE Scheme123Mol(
            Scheme123Ph([st EXCEPT !.order = DictSet(st.order, Dof("e", imol), st.idx),
                                   !.basis = Append(st.basis, "BasisSimpleElectron"),
                                   !.idx = st.idx + 1],
                        imol, 0, mol_list[imol + 1]),
            mol_list, imol + 1)

\* Mutant of Scheme4Ph: the right-hand modes are not shifted past the
\* electronic site.
RECURSIVE Scheme4PhNoShift(_, _, _, _, _)
Scheme4PhNoShift(st, imol, iph, nph, n_left_mol) ==
    IF iph >= nph THEN st
    ELSE Scheme4PhNoShift(
            [order   |-> DictSet(st.order, Dof("v", st.nv), st.idx),
             mapping |-> DictSet(st.mapping, <<imol, iph>>, Dof("v", st.nv)),
             basis   |-> Append(st.basis, "BasisSHO"),
             idx     |-> st.idx + 1,
             nv      |-> st.nv + 1,
             n_left_ph |-> IF imol < n_left_mol THEN st.n_left_ph + 1 ELSE st.n_left_ph],
            imol, iph + 1, nph, n_left_mol)

\* Scheme 4, the inner loop.
RECURSIVE Scheme4Ph(_, _, _, _, _)
Scheme4Ph(st, imol, iph, nph, n_left_mol) ==
    IF iph >= nph THEN st
    ELSE Scheme4Ph(
            [order   |-> DictSet(st.order, Dof("v", st.nv),
                                 IF imol < n_left_mol THEN st.idx ELSE st.idx + 1),
             mapping |-> DictSet(st.mapping, <<imol, iph>>, Dof("v", st.nv)),
             basis   |-> Append(st.basis, "BasisSHO"),
             idx     |-> st.idx + 1,
             nv      |-> st.nv + 1,
             n_left_ph |-> IF imol < n_left_mol THEN st.n_left_ph + 1 ELSE st.n_left_ph],
            imol, iph + 1, nph, n_left_mol)

\* Scheme 4, the outer loop.
RECURSIVE Scheme4Mol(_, _, _, _)
Scheme4Mol(st, mol_list, imol, n_left_mol) ==
    IF imol >= Len(mol_list) THEN st
    ELSE Scheme4Mol(Scheme4Ph(st, imol, 0, mol_list[imol + 1], n_left_mol),
                    mol_list, imol + 1, n_left_mol)

\* for imol in range(mol_num): order[f"e_{imol}"] = n_left_ph
RECURSIVE Scheme4Electrons(_, _, _, _)
Scheme4Electrons(order, imol, mol_num, n_left_ph) ==
    IF imol >= mol_num THEN order
    ELSE Scheme4Electrons(DictSet(order, Dof("e", imol), n_left_ph),
                          imol + 1, mol_num, n_left_ph)

\* order = {}; basis = []; mapping = {}; idx = 0; nv = 0; n_left_ph = 0
EmptyLayout ==
    [order |-> <<>>, mapping |-> <<>>, basis |-> <<>>, idx |-> 0, nv |-> 0,
     n_left_ph |-> 0]

\* if scheme < 4
SchemeIsLinear(scheme) == scheme < 4

\* The layout branch of HolsteinModel.__init__ (lines 185-225).
Layout(mol_list, scheme) ==
    LET mol_num == Len(mol_list)
    IN  IF SchemeIsLinear(scheme)
        THEN [outcome |-> "ok", st |-> Scheme123Mol(EmptyLayout, mol_list, 0)]
        ELSE IF scheme = 4
        THEN LET n_left_mol == mol_num \div 2
                 st == Scheme4Mol(EmptyLayout, mol_list, 0, n_left_mol)
             IN  [outcome |-> "ok",
                  st |-> [st EXCEPT
                            !.order = Scheme4Electrons(st.order, 0, mol_num, st.n_left_ph),
                            !.basis = ListInsert(st.basis, st.n_left_ph,
                                                 "BasisMultiElectronVac")]]
        ELSE [outcome |-> "ValueError", st |-> EmptyLayout]

\* The keys of the term map (lines 229-259): electronic, vibration and
\* vibration potential terms.
HolsteinTerms(mol_list, mapping) ==
    LET mol_num == Len(mol_list)
        modes == {<<imol, iph>> \in (0..(mol_num - 1)) \X (0..(Max(Range(mol_list) \cup {0}) - 1)) :
                     iph < mol_list[imol + 1]}
    IN  {<<Dof("e", imol)>> : imol \in 0..(mol_num - 1)}
        \cup {<<Dof("e", p[1]), Dof("e", p[2])>> :
                 p \in {q \in Idx(mol_num) : q[1] # q[2]}}
        \cup {<<DictGet(mapping, im)>> : im \in modes}
        \cup {<<Dof("e", im[1]), DictGet(mapping, im)>> : im \in modes}

\* The coupling matrix of lines 164-176. j is [form, value, mat]: None, a
\* Quantity (its value in a.u.) or an ndarray.
CouplingMatrix(mol_num, j, periodic) ==
    IF j.form = "None" /\ mol_num # 1
    THEN [outcome |-> "AssertionError", mat |-> [n |-> 0, a |-> EmptyDict]]
    ELSE IF j.form \in {"None", "Quantity"}
    THEN construct_j_matrix(mol_num, IF j.form = "None" THEN 0 ELSE j.value, periodic)
    ELSE IF periodic /\ j.mat.n = 0
    THEN [outcome |-> "IndexError", mat |-> [n |-> 0, a |-> EmptyDict]]
    ELSE IF periodic /\ ~(j.mat.a[<<0, j.mat.n - 1>>] # 0 /\ j.mat.a[<<j.mat.n - 1, 0>>] # 0)
    THEN [outcome |-> "AssertionError", mat |-> [n |-> 0, a |-> EmptyDict]]
    ELSE IF j.mat.n # mol_num
    THEN [outcome |-> "AssertionError", mat |-> [n |-> 0, a |-> EmptyDict]]
    ELSE [outcome |-> "ok", mat |-> j.mat]

\* What a recipe leaves when it raises.
NoModel(err) ==
    [outcome |-> err, m |-> Raised(err), map |-> <<>>,
     j_matrix |-> [n |-> 0, a |-> EmptyDict], scheme |-> 0, periodic |-> FALSE,
     mol_num |-> 0]

\* HolsteinModel(mol_list, j_matrix, scheme, periodic): the object, or the
\* error raised.
HolsteinModel(mol_list, j, scheme, periodic) ==
    LET mol_num == Len(mol_list)
        jm == CouplingMatrix(mol_num, j, periodic)
        lay == Layout(mol_list, scheme)
    IN  IF jm.outcome # "ok" THEN NoModel(jm.outcome)
        ELSE IF lay.outcome # "ok" THEN NoModel(lay.outcome)
        ELSE LET m == ModelInit([form |-> "dict", items |-> lay.st.order],
                                [form |-> "list", list |-> lay.st.basis, dict |-> EmptyDict],
                                HolsteinTerms(mol_list, lay.st.mapping))
                 n_edofs == e_dofs(m)
             IN  IF m.outcome # "ok" THEN NoModel(m.outcome)
                 ELSE IF n_edofs.outcome # "ok" THEN NoModel(n_edofs.outcome)
                 ELSE [outcome |-> "ok", m |-> m, map |-> lay.st.mapping,
                       j_matrix |-> jm.mat, scheme |-> scheme, periodic |-> periodic,
                       mol_num |-> Len(n_edofs.dofs)]

(***************************************************************************)
(* SpinBosonModel.__init__, given the number of phonon modes.              *)
(***************************************************************************)
\* for iph, ph in enumerate(ph_list): order[f"v_{iph}"] = iph+1; basis.append(BasisSHO)
RECURSIVE SpinBosonPh(_, _, _)
SpinBosonPh(st, iph, nph) ==
    IF iph >= nph THEN st
    ELSE SpinBosonPh([st EXCEPT !.order = DictSet(st.order, Dof("v", iph), iph + 1),
                                !.basis = Append(st.basis, "BasisSHO")],
                     iph + 1, nph)

\* The keys of the term map (lines 393-403).
SpinBosonTerms(nph) ==
    {<<Dof("e", 0)>>}
    \cup {<<Dof("v", iph)>> : iph \in 0..(nph - 1)}
    \cup {<<Dof("e", 0), Dof("v", iph)>> : iph \in 0..(nph - 1)}

SpinBosonModel(nph) ==
    LET st == SpinBosonPh([EmptyLayout EXCEPT !.order = DictSet(<<>>, Dof("e", 0), 0),
                                              !.basis = <<"BasisHalfSpin">>],
                          0, nph)
        m == ModelInit([form |-> "dict", items |-> st.order],
                       [form |-> "list", list |-> st.basis, dict |-> EmptyDict],
                       SpinBosonTerms(nph))
    IN  IF m.outcome # "ok" THEN NoModel(m.outcome)
        ELSE [NoModel("ok") EXCEPT !.m = m]

(***************************************************************************)
(* The recipes' callers.                                                   *)
(***************************************************************************)
\* Bounds of the recipes' arguments.
MaxMol == 3

MaxPh == 2

MaxJ == 2

\* mol_list: up to MaxMol molecules of up to MaxPh modes each.
MolLists == UNION {[1..n -> 0..MaxPh] : n \in 0..MaxMol}

\* mol_list of n molecules without modes.
BareMols(n) == [i \in 1..n |-> 0]

\* The scheme arguments tried: the four layouts and their neighbours.
Schemes == (0 - 1)..5

\* Coupling values in a.u.
JValues == 0..MaxJ

NoMat == [n |-> 0, a |-> EmptyDict]

JNone == [form |-> "None", value |-> 0, mat |-> NoMat]

JQuantity(v) == [form |-> "Quantity", value |-> v, mat |-> NoMat]

\* The ndarrays tried: side n, d on the diagonal, nn between nearest
\* neighbours and far elsewhere.
JArrays(n) ==
    {[form |-> "ndarray", value |-> 0,
      mat |-> [n |-> n,
               a |-> [p \in Idx(n) |->
                        IF p[1] = p[2] THEN t[1]
                        ELSE IF Abs(p[1] - p[2]) = 1 THEN t[2] ELSE t[3]]]] :
        t \in JValues \X JValues \X JValues}

\* np.zeros((n, n))
JZeros(n) == [form |-> "ndarray", value |-> 0, mat |-> [n |-> n, a |-> [p \in Idx(n) |-> 0]]]

JArgs == {JNone} \cup {JQuantity(v) : v \in JValues} \cup UNION {JArrays(n) : n \in 0..MaxMol}

InitHol == hol = [made |-> FALSE]

NoRead == [read |-> FALSE, outcome |-> "ok", value |-> 0]

\* model = HolsteinModel(mol_list, j_matrix, scheme, periodic)
new_HolsteinModel(mol_list, j, scheme, periodic) ==
    /\ ~hol.made
    /\ hol' = [made |-> TRUE, recipe |-> "HolsteinModel", mol_list |-> mol_list,
               j |-> j, scheme |-> scheme, periodic |-> periodic,
               obj |-> HolsteinModel(mol_list, j, scheme, periodic), jc |-> NoRead]

\* model = SpinBosonModel(epsilon, delta, ph_list)
new_SpinBosonModel(nph) ==
    /\ ~hol.made
    /\ hol' = [made |-> TRUE, recipe |-> "SpinBosonModel", mol_list |-> <<nph>>,
               j |-> JNone, scheme |-> 0, periodic |-> FALSE,
               obj |-> SpinBosonModel(nph), jc |-> NoRead]

\* model.j_constant is read.
read_j_constant ==
    /\ hol.made
    /\ hol.recipe = "HolsteinModel"
    /\ hol.obj.outcome = "ok"
    /\ ~hol.jc.read
    /\ hol' = [hol EXCEPT !.jc = [read |-> TRUE] @@ j_constant(hol.obj.j_matrix)]

(***************************************************************************)
(* VibronicModel.__init__.  The two-level term table is read in the order   *)
(* of the nested loops: one item [e_k, kk, vv] per sub-key.  e_k is         *)
(* [name, dofs]: "I", or a tuple of two electronic DoFs; kk is             *)
(* [name, dofs]: "J", or a tuple of vibrational DoFs; vv is                *)
(* [factor, terms]: a number under "J", a list of terms under a tuple.     *)
(* A term (Op, ..., factor) is [ops, factor].                              *)
(***************************************************************************)
\* Mutant of ElectronicPart: a diagonal key keeps both of its DoFs.
ElectronicPartNoCollapse(e_k) ==
    IF e_k.dofs[1] = e_k.dofs[2]
    THEN [new_e_k |-> e_k.dofs, e_op |-> <<"a^dagger a">>]
    ELSE [new_e_k |-> e_k.dofs, e_op |-> <<"a^dagger", "a">>]

\* new_e_k and e_op of an electronic key (lines 347-354).
ElectronicPart(e_k) ==
    IF e_k.dofs[1] = e_k.dofs[2]
    THEN [new_e_k |-> <<e_k.dofs[1]>>, e_op |-> <<"a^dagger a">>]
    ELSE [new_e_k |-> e_k.dofs, e_op |-> <<"a^dagger", "a">>]

\* e_op + term, e_op + (vv,)
OpsPlus(e_op, term) == [ops |-> e_op \o term.ops, factor |-> term.factor]

\* new_model[key] of the defaultdict(list): a missing key reads as [].
DefaultGet(d, k) == IF DictHas(d, k) THEN DictGet(d, k) ELSE <<>>

\* for term in vv: new_model[new_e_k + kk].append(e_op + term)   (terms i..)
RECURSIVE AppendTerms(_, _, _, _, _)
AppendTerms(new_model, new_key, e_op, vv, i) ==
    IF i > Len(vv) THEN new_model
    ELSE AppendTerms(DictSet(new_model, new_key,
                             Append(DefaultGet(new_model, new_key), OpsPlus(e_op, vv[i]))),
                     new_key, e_op, vv, i + 1)

\* The body of the inner loop for one (e_k, kk, vv).
RekeyItem(new_model, e_k, kk, vv) ==
    IF e_k.name = "I" THEN DictSet(new_model, kk.dofs, vv.terms)
    ELSE LET part == ElectronicPart(e_k)
         IN  IF kk.name = "J"
             THEN DictSet(new_model, part.new_e_k,
                          <<OpsPlus(part.e_op, [ops |-> <<>>, factor |-> vv.factor])>>)
             ELSE AppendTerms(new_model, part.new_e_k \o kk.dofs, part.e_op, vv.terms, 1)

\* The nested loops over model.items() and e_v.items()   (items i..)
RECURSIVE RekeyItems(_, _, _)
RekeyItems(new_model, items, i) ==
    IF i > Len(items) THEN new_model
    ELSE RekeyItems(RekeyItem(new_model, items[i].e_k, items[i].kk, items[i].vv),
                    items, i + 1)

\* VibronicModel(order, basis, model): the loops, then Model.__init__ with
\* the flat term map.
VibronicModel(order, basis, model) ==
    ModelInit(order, basis, RekeyItems(<<>>, model, 1))

\* Bounds of the term tables a caller passes.
NumVib == 2

MaxTerms == 1

NumFactors == 2

Factors == 1..NumFactors

\* Sub-keys: the tuples of vibrational DoFs in ascending order, () included.
VibKeys ==
    {CHOOSE s \in [1..Cardinality(S) -> {Dof("v", i) : i \in S}] :
        \A a, b \in DOMAIN s : a < b => s[a][2] < s[b][2] :
     S \in SUBSET (0..(NumVib - 1))}

\* The terms on the DoFs of a sub-key: one local operator per DoF.
TermsOn(dofs) == {[ops |-> [i \in DOMAIN dofs |-> "x"], factor |-> f] : f \in Factors}

\* "I", a diagonal key and an off-diagonal key.
ElecKeys ==
    {[name |-> "I", dofs |-> <<>>],
     [name |-> "tuple", dofs |-> <<Dof("e", 0), Dof("e", 0)>>],
     [name |-> "tuple", dofs |-> <<Dof("e", 0), Dof("e", 1)>>]}

VibItems ==
    {[e_k |-> e_k, kk |-> [name |-> "J", dofs |-> <<>>],
      vv |-> [factor |-> f, terms |-> <<>>]] :
        e_k \in {k \in ElecKeys : k.name # "I"}, f \in Factors}
    \cup UNION {{[e_k |-> e_k, kk |-> [name |-> "tuple", dofs |-> dofs],
                  vv |-> [factor |-> 0, terms |-> l]] :
                    l \in UNION {[1..n -> TermsOn(dofs)] : n \in 0..MaxTerms}} :
                <<e_k, dofs>> \in ElecKeys \X VibKeys}

\* Term tables of up to two sub-keys, no sub-key twice under one key.
VibModelArgs ==
    {<<>>} \cup {<<a>> : a \in VibItems}
    \cup {<<p[1], p[2]>> : p \in {q \in VibItems \X VibItems :
                                    q[1].e_k # q[2].e_k \/ q[1].kk # q[2].kk}}

\* order and basis of the DoFs the tables name.
VibOrder ==
    [form |-> "list",
     items |-> <<Dof("e", 0), Dof("e", 1)>> \o [i \in 1..NumVib |-> Dof("v", i - 1)]]

VibBasis ==
    [form |-> "list", dict |-> EmptyDict,
     list |-> [i \in DOMAIN VibOrder.items |-> BasisFor(VibOrder.items[i])]]

InitVib == vib = [made |-> FALSE]

\* model = VibronicModel(order, basis, model)
new_VibronicModel(model) ==
    /\ ~vib.made
    /\ vib' = [made |-> TRUE, arg |-> model, obj |-> VibronicModel(VibOrder, VibBasis, model)]

(***************************************************************************)
(* Independent spectra jobs.  runs.heap holds the list objects that exist  *)
(* (a list's identity is its index), runs.jobs the job objects, each with  *)
(* the reference its _autocorr attribute holds.                            *)
(***************************************************************************)
NumJobs == 2

NumInputs == 2

\* What a job is built from and evolved with: initial state, MPO and dt.
JobInputs == 1..NumInputs

\* Mutant of NewList: one list shared by every instance.
NewListShared(heap) ==
    IF heap = <<>> THEN [heap |-> <<<<>>>>, ref |-> 1]
    ELSE [heap |-> heap, ref |-> 1]

\* self._autocorr = []: a new list object
NewList(heap) == [heap |-> Append(heap, <<>>), ref |-> Len(heap) + 1]

\* braket_pair.ft after step k of a run from the input: the propagation is
\* deterministic under identical seeding, and a job evolves its own copy of
\* the initial state.
SampleAt(input, k) == <<input, k>>

InitRuns == runs = [heap |-> <<>>, jobs |-> <<>>]

\* job = SpectraClass(i_mps, h_mpo)
new_job(input) ==
    /\ Len(runs.jobs) < NumJobs
    /\ LET l == NewList(runs.heap)
       IN  runs' = [heap |-> l.heap,
                    jobs |-> Append(runs.jobs,
                                    [_autocorr |-> l.ref, input |-> input,
                                     jobState |-> "Initialized", nsteps |-> 0,
                                     stepsDone |-> 0])]

\* job.evolve(dt, nsteps) is entered.
job_evolve(j, n) ==
    /\ j \in DOMAIN runs.jobs
    /\ runs.jobs[j].jobState = "Initialized"
    /\ runs' = [runs EXCEPT !.jobs[j].jobState = "Evolving", !.jobs[j].nsteps = n]

\* One step of job j: the step's pair goes to the job's process_mps.
job_step(j) ==
    /\ j \in DOMAIN runs.jobs
    /\ runs.jobs[j].jobState = "Evolving"
    /\ LET job == runs.jobs[j]
           k == job.stepsDone + 1
       IN  runs' = [runs EXCEPT
                      !.heap[job._autocorr] = process_mps(@, SampleAt(job.input, k)),
                      !.jobs[j].stepsDone = k,
                      !.jobs[j].jobState = IF k = job.nsteps THEN "Finalized" ELSE "Evolving"]

\* job.autocorr: np.array(self._autocorr)
job_autocorr(j) == runs.heap[runs.jobs[j]._autocorr]

(***************************************************************************)
(* HolsteinModel.switch_scheme.  The model it is called on is hol, with    *)
(* the operator cache mpos; sw is the object the call returns.             *)
(***************************************************************************)
\* mol_list arguments: every molecule with the same number of modes.
UniformMols == {[i \in 1..n |-> k] : n \in 0..MaxMol, k \in 0..MaxPh}

\* self.j_matrix handed on as the j_matrix argument: an ndarray.
JOfModel(mat) == [form |-> "ndarray", value |-> 0, mat |-> mat]

InitSw == sw = [made |-> FALSE]

\* return HolsteinModel(self.mol_list, self.j_matrix, scheme): periodic takes
\* its default, False; the new object's cache is the dict() of Model.__init__.
switch_scheme(scheme) ==
    /\ hol.made
    /\ hol.recipe = "HolsteinModel"
    /\ hol.obj.outcome = "ok"
    /\ ~sw.made
    /\ sw' = [made |-> TRUE, arg |-> scheme, mol_list |-> hol.mol_list,
              obj |-> HolsteinModel(hol.mol_list, JOfModel(hol.obj.j_matrix), scheme, FALSE),
              mpos |-> EmptyDict]

\* get_mpos on the model switch_scheme is called on.
get_mpos_of_model(key, fun) ==
    /\ hol.made
    /\ hol.obj.outcome = "ok"
    /\ get_mpos(key, fun, TRUE)

(***************************************************************************)
(* ephMPS Phonon: base, pbond and gs_mps.  A site tensor of shape          *)
(* (1, base, 1) is [shape, sq]: sq[l] is the square of the entry of level  *)
(* l (the entries are not negative), as the fraction <<num, den>>.         *)
(***************************************************************************)
MaxPhysDim == 16

MaxQBoson == 4

RECURSIVE Pow(_, _)
Pow(b, q) == IF q = 0 THEN 1 ELSE b * Pow(b, q - 1)

\* int(round(n_phys_dim ** (1. / nqboson))): the b with
\* (b - 1/2)^q <= n < (b + 1/2)^q, taken in exact arithmetic.
PhononBase(n_phys_dim, nqboson) ==
    CHOOSE b \in 0..n_phys_dim :
        /\ Pow(2 * b - 1, nqboson) <= Pow(2, nqboson) * n_phys_dim
        /\ Pow(2, nqboson) * n_phys_dim < Pow(2 * b + 1, nqboson)

\* Phonon(omega, displacement, n_phys_dim, nqboson=nqboson)
Phonon(n_phys_dim, nqboson) ==
    [n_phys_dim |-> n_phys_dim, nqboson |-> nqboson,
     base |-> PhononBase(n_phys_dim, nqboson)]

\* pbond: [self.base] * self.nqboson
pbond(self) == [i \in 1..self.nqboson |-> self.base]

\* np.zeros((1, self.base, 1))
np_zeros_site(base) == [shape |-> <<1, base, 1>>, sq |-> [l \in 0..(base - 1) |-> <<0, 1>>]]

\* One tensor of gs_mps: ms[0, :, 0] = 1.0 / np.sqrt(self.base), or
\* ms[0, 1, 0] = 1.0, which is an IndexError when the axis has one entry.
gs_site(self, max_entangled) ==
    LET ms == np_zeros_site(self.base)
    IN  IF max_entangled
        THEN [outcome |-> "ok",
              ms |-> [ms EXCEPT !.sq = [l \in 0..(self.base - 1) |-> <<1, self.base>>]]]
        ELSE IF 1 \notin DOMAIN ms.sq
        THEN [outcome |-> "IndexError", ms |-> ms]
        ELSE [outcome |-> "ok", ms |-> [ms EXCEPT !.sq[1] = <<1, 1>>]]

\* list(self.gs_mps(max_entangled)): the tensors yielded, or the error the
\* first of them raises.
gs_mps(self, max_entangled) ==
    LET site == gs_site(self, max_entangled)
    IN  IF self.nqboson >= 1 /\ site.outcome # "ok"
        THEN [outcome |-> site.outcome, tensors |-> <<>>]
        ELSE [outcome |-> "ok", tensors |-> [iboson \in 1..self.nqboson |-> site.ms]]

InitPh == ph = [made |-> FALSE]

\* ph = Phonon(..., n_phys_dim, nqboson=nqboson)
new_Phonon(n_phys_dim, nqboson) ==
    /\ ~ph.made
    /\ ph' = [made |-> TRUE, self |-> Phonon(n_phys_dim, nqboson), called |-> FALSE]

\* list(ph.gs_mps(max_entangled))
call_gs_mps(max_entangled) ==
    /\ ph.made
    /\ ~ph.called
    /\ ph' = [made |-> TRUE, self |-> ph.self, called |-> TRUE,
              max_entangled |-> max_entangled, res |-> gs_mps(ph.self, max_entangled)]

(***************************************************************************)
(* Specifications.                                                         *)
(***************************************************************************)
\* The objects a specification does not use stay as they start.
InitRest == InitRuns /\ InitSw /\ InitPh

\* One Model instance and the callers of its get_mpos.
InitCacheSpec == InitCache /\ InitJob /\ InitCtor /\ InitHol /\ InitVib /\ InitRest

NextCache ==
    \E key \in Keys, fun \in Funs, ok \in BOOLEAN :
        /\ get_mpos(key, fun, ok)
        /\ UNCHANGED <<jobVars, ctor, hol, vib, runs, sw, ph>>

SpecCache == InitCacheSpec /\ [][NextCache]_vars

\* One spectra job, its evolve loop and the callers of its public members.
InitJobSpec == InitCache /\ InitJob /\ InitCtor /\ InitHol /\ InitVib /\ InitRest

NextJob ==
    \/ \E n \in 1..MaxSteps : evolve(n) /\ UNCHANGED <<cacheVars, ctor, hol, vib, runs, sw, ph>>
    \/ \E ft \in FtValues, ok \in BOOLEAN :
          evolve_step(ft, ok) /\ UNCHANGED <<cacheVars, ctor, hol, vib, runs, sw, ph>>
    \/ \E ft \in FtValues : process_mps_call(ft) /\ UNCHANGED <<cacheVars, ctor, hol, vib, runs, sw, ph>>
    \/ read_autocorr /\ UNCHANGED <<cacheVars, ctor, hol, vib, runs, sw, ph>>
    \/ \E i \in 1..(MaxSteps + MaxDirect) :
          write_held(i) /\ UNCHANGED <<cacheVars, ctor, hol, vib, runs, sw, ph>>

SpecJob == InitJobSpec /\ [][NextJob]_vars

\* The callers of Model(...).
InitModelSpec == InitCache /\ InitJob /\ InitCtor /\ InitHol /\ InitVib /\ InitRest

NextModel ==
    /\ ~ctor.made
    /\ \E order \in CtorOrderArgs, basis \in CtorBasisArgs, model \in CtorModelArgs :
          /\ construct_model(order, basis, model)
          /\ UNCHANGED <<cacheVars, jobVars, hol, vib, runs, sw, ph>>

SpecModel == InitModelSpec /\ [][NextModel]_vars

\* The recipes and their layouts: any mol_list and scheme, the coupling
\* given as None, as a scalar or as the zero matrix of the list's size.
InitHolsteinSpec == InitCache /\ InitJob /\ InitCtor /\ InitHol /\ InitVib /\ InitRest

NextHolstein ==
    \/ /\ ~hol.made
       /\ \E mol_list \in MolLists, scheme \in Schemes, periodic \in BOOLEAN :
          \E j \in {JNone, JQuantity(1), JZeros(Len(mol_list))} :
             /\ new_HolsteinModel(mol_list, j, scheme, periodic)
             /\ UNCHANGED <<cacheVars, jobVars, ctor, vib, runs, sw, ph>>
    \/ /\ ~hol.made
       /\ \E nph \in 0..(MaxMol * MaxPh) :
             /\ new_SpinBosonModel(nph)
             /\ UNCHANGED <<cacheVars, jobVars, ctor, vib, runs, sw, ph>>

SpecHolstein == InitHolsteinSpec /\ [][NextHolstein]_vars

\* The coupling matrix and j_constant: molecules without modes in the
\* default scheme, any coupling argument.
InitCouplingSpec == InitCache /\ InitJob /\ InitCtor /\ InitHol /\ InitVib /\ InitRest

NextCoupling ==
    \/ /\ ~hol.made
       /\ \E n \in 0..MaxMol, j \in JArgs, periodic \in BOOLEAN :
             /\ new_HolsteinModel(BareMols(n), j, 2, periodic)
             /\ UNCHANGED <<cacheVars, jobVars, ctor, vib, runs, sw, ph>>
    \/ read_j_constant /\ UNCHANGED <<cacheVars, jobVars, ctor, vib, runs, sw, ph>>

SpecCoupling == InitCouplingSpec /\ [][NextCoupling]_vars

\* One VibronicModel construction.
InitVibronicSpec == InitCache /\ InitJob /\ InitCtor /\ InitHol /\ InitVib /\ InitRest

NextVibronic ==
    /\ ~vib.made
    /\ \E model \in VibModelArgs :
          /\ new_VibronicModel(model)
          /\ UNCHANGED <<cacheVars, jobVars, ctor, hol, runs, sw, ph>>

SpecVibronic == InitVibronicSpec /\ [][NextVibronic]_vars

\* Jobs built and run side by side.
InitRunsSpec == InitCache /\ InitJob /\ InitCtor /\ InitHol /\ InitVib /\ InitRest

NextRuns ==
    \/ \E input \in JobInputs :
          new_job(input) /\ UNCHANGED <<cacheVars, jobVars, ctor, hol, vib, sw, ph>>
    \/ \E j \in 1..NumJobs, n \in 1..MaxSteps :
          job_evolve(j, n) /\ UNCHANGED <<cacheVars, jobVars, ctor, hol, vib, sw, ph>>
    \/ \E j \in 1..NumJobs :
          job_step(j) /\ UNCHANGED <<cacheVars, jobVars, ctor, hol, vib, sw, ph>>

SpecRuns == InitRunsSpec /\ [][NextRuns]_vars

\* A Holstein model, its operator cache, and one switch_scheme call.
InitSwitchSpec == InitCache /\ InitJob /\ InitCtor /\ InitHol /\ InitVib /\ InitRest

NextSwitch ==
    \/ /\ ~hol.made
       /\ \E mol_list \in UniformMols, scheme \in 1..4, periodic \in BOOLEAN :
             /\ new_HolsteinModel(mol_list, JQuantity(MaxJ), scheme, periodic)
             /\ UNCHANGED <<cacheVars, jobVars, ctor, vib, runs, sw, ph>>
    \/ \E key \in Keys, fun \in Funs :
          /\ get_mpos_of_model(key, fun)
          /\ UNCHANGED <<jobVars, ctor, hol, vib, runs, sw, ph>>
    \/ \E scheme \in Schemes :
          /\ switch_scheme(scheme)
          /\ UNCHANGED <<cacheVars, jobVars, ctor, hol, vib, runs, ph>>

SpecSwitch == InitSwitchSpec /\ [][NextSwitch]_vars

\* One Phonon and one gs_mps call.
InitPhononSpec == InitCache /\ InitJob /\ InitCtor /\ InitHol /\ InitVib /\ InitRest

NextPhonon ==
    \/ /\ ~ph.made
       /\ \E n_phys_dim \in 1..MaxPhysDim, nqboson \in 1..MaxQBoson :
             /\ new_Phonon(n_phys_dim, nqboson)
             /\ UNCHANGED <<cacheVars, jobVars, ctor, hol, vib, runs, sw>>
    \/ \E max_entangled \in BOOLEAN :
          /\ call_gs_mps(max_entangled)
          /\ UNCHANGED <<cacheVars, jobVars, ctor, hol, vib, runs, sw>>

SpecPhonon == InitPhononSpec /\ [][NextPhonon]_vars

(***************************************************************************)
(* C1. get_mpos invokes the builder only when the key has no cache entry,  *)
(* so at most one operator is ever built per key, and every later call     *)
(* with that key returns the object the first call stored, whichever       *)
(* builder is passed.                                                      *)
(***************************************************************************)
C1_AtMostOneBuildPerKey ==
    /\ \A k \in Keys : built[k] <= 1
    /\ \A k \in DOMAIN mpos : k \in DOMAIN first /\ mpos[k] = first[k]
    /\ lastCall.made =>
          /\ lastCall.invokedFun <=> ~lastCall.present
          /\ lastCall.present => lastCall.ret = {first[lastCall.key]}

\* A call that hits the cache with another builder than the one that built
\* the entry, and gets the first object back.
C1_Witness ==
    /\ lastCall.made
    /\ lastCall.present
    /\ lastCall.fun # first[lastCall.key].by
    /\ lastCall.ret = {first[lastCall.key]}

(***************************************************************************)
(* C2. autocorr holds exactly one sample per completed step, in step       *)
(* order: it starts empty, every process_mps call appends exactly one      *)
(* sample (the pair's ft) at the end, and no earlier sample is reordered,  *)
(* overwritten or removed.                                                 *)
(***************************************************************************)
\* The log entries that come from a step of evolve.
StepEntries == SelectSeq(log, LAMBDA e : e.step # 0)

C2_OneSamplePerStepInOrder ==
    /\ _autocorr = <<>>
    /\ [](/\ Len(_autocorr) = Len(log)
          /\ \A i \in 1..Len(log) : _autocorr[i] = log[i].ft
          /\ Len(StepEntries) = stepsDone
          /\ \A i \in 1..Len(StepEntries) : StepEntries[i].step = i
          /\ autocorr.data = _autocorr)
    /\ [][\/ _autocorr' = _autocorr
          \/ \E ft \in FtValues : _autocorr' = Append(_autocorr, ft)]_vars

\* A finished run of two steps or more, with the samples of different value.
C2_Witness ==
    /\ jobState = "Finalized"
    /\ stepsDone >= 2
    /\ Len(_autocorr) >= 2
    /\ _autocorr[1] # _autocorr[2]

(***************************************************************************)
(* C6. Partial results are never returned on failure: when a run aborts    *)
(* after N of the requested nsteps steps (N < nsteps), no usable autocorr  *)
(* sequence is observable on the job.                                      *)
(***************************************************************************)
C6_NoPartialResults ==
    (jobState = "Aborted" /\ 0 < stepsDone /\ stepsDone < nsteps)
        => autocorr.data = <<>>

(***************************************************************************)
(* C7. Once the job is Finalized it stays Finalized, no further sample is  *)
(* appended to the accumulated sequence, and nothing a caller does with    *)
(* an autocorr result changes what later reads of autocorr return.         *)
(***************************************************************************)
C7_FinalizedReadOnly ==
    [][jobState = "Finalized" =>
          /\ jobState' = "Finalized"
          /\ _autocorr' = _autocorr
          /\ autocorr'.data = autocorr.data]_vars

(***************************************************************************)
(* C3. Model construction rejects, for list-form and dict-form arguments   *)
(* alike, order values that do not exactly cover 0..nsite-1, a model term  *)
(* that names a DoF absent from order, and e_* / v_* index sets that are   *)
(* not contiguous ranges from 0: a Model that is constructed satisfies     *)
(* all three.                                                              *)
(***************************************************************************)
ModelConsistent(m) ==
    /\ DictValues(m.order) = 0..(nsite(m) - 1)
    /\ \A key \in m.model : \A i \in DOMAIN key : DictHas(m.order, key[i])
    /\ DofsContiguous(m, "e")
    /\ DofsContiguous(m, "v")

C3_ConstructionValidates ==
    (ctor.made /\ ctor.m.outcome = "ok") => ModelConsistent(ctor.m)

(***************************************************************************)
(* C4. A HolsteinModel constructed with a scheme outside {1, 2, 3, 4}      *)
(* (0, a negative integer, 5) fails with an error and yields no model.     *)
(***************************************************************************)
C4_InvalidSchemeRejected ==
    (hol.made /\ hol.recipe = "HolsteinModel" /\ hol.scheme \notin 1..4)
        => hol.obj.outcome # "ok"

(***************************************************************************)
(* C5. j_constant returns the coupling value when the entries of j_matrix  *)
(* are exactly one non-zero value plus zeros, and raises ValueError in     *)
(* every other case; for the nearest-neighbour matrix of a non-zero        *)
(* scalar J and at least two molecules it returns J.                       *)
(***************************************************************************)
C5_JConstantOrValueError ==
    (hol.made /\ hol.jc.read) =>
        LET es == Entries(hol.obj.j_matrix)
            nz == es \ {0}
        IN  /\ IF Cardinality(nz) = 1 /\ 0 \in es
               THEN hol.jc.outcome = "ok" /\ hol.jc.value \in nz
               ELSE hol.jc.outcome = "ValueError"
            /\ (hol.j.form = "Quantity" /\ hol.j.value # 0 /\ Len(hol.mol_list) >= 2)
                  => (hol.jc.outcome = "ok" /\ hol.jc.value = hol.j.value)

(***************************************************************************)
(* C8. In scheme 4, for any list of molecules, every electronic DoF maps   *)
(* to one and the same site, which holds the multi-electron basis and      *)
(* whose index is the number of modes of the first mol_num // 2 molecules; *)
(* the modes of those molecules lie strictly before it, the modes of the   *)
(* others strictly after it, and the sites order uses are exactly          *)
(* 0..nsite-1 with nsite = len(basis).                                     *)
(***************************************************************************)
\* The number of modes of the first k molecules.
RECURSIVE ModesOfFirst(_, _)
ModesOfFirst(mol_list, k) ==
    IF k = 0 THEN 0 ELSE mol_list[k] + ModesOfFirst(mol_list, k - 1)

Scheme4LayoutHolds ==
    LET m == hol.obj.m
        mol_num == Len(hol.mol_list)
        n_left_mol == mol_num \div 2
        mid == ModesOfFirst(hol.mol_list, n_left_mol)
        modes == {<<imol, iph>> \in (0..(mol_num - 1)) \X (0..(MaxPh + 1)) :
                     iph < hol.mol_list[imol + 1]}
    IN  /\ \A imol \in 0..(mol_num - 1) :
              /\ DictHas(m.order, Dof("e", imol))
              /\ DictGet(m.order, Dof("e", imol)) = mid
        /\ mid + 1 \in DOMAIN m.basis
        /\ m.basis[mid + 1] = "BasisMultiElectronVac"
        /\ DictKeys(hol.obj.map) = modes
        /\ {n \in DictKeys(m.order) : n[1] = "v"} = DictValues(hol.obj.map)
        /\ \A k \in modes :
              LET site == DictGet(m.order, DictGet(hol.obj.map, k))
              IN  IF k[1] < n_left_mol THEN site < mid ELSE site > mid
        /\ DictValues(m.order) = 0..(nsite(m) - 1)

Scheme4Built ==
    /\ hol.made
    /\ hol.recipe = "HolsteinModel"
    /\ hol.scheme = 4
    /\ hol.obj.outcome = "ok"

RecipeBuilt ==
    /\ hol.made
    /\ hol.obj.outcome = "ok"
    /\ \/ hol.recipe = "HolsteinModel" /\ hol.scheme \in 1..3
       \/ hol.recipe = "SpinBosonModel"

C9_RecipesStructurallyValid ==
    RecipeBuilt =>
        LET m == hol.obj.m
            ebasis == IF hol.recipe = "SpinBosonModel" THEN "BasisHalfSpin"
                      ELSE "BasisSimpleElectron"
        IN  /\ DictValues(m.order) = 0..(nsite(m) - 1)
            /\ Cardinality(DictKeys(m.order)) = nsite(m)
            /\ \A i, j \in DOMAIN m.order :
                  m.order[i][2] = m.order[j][2] => i = j
            /\ \A n \in DictKeys(m.order) :
                  m.basis[DictGet(m.order, n) + 1] = (IF n[1] = "e" THEN ebasis ELSE "BasisSHO")
            /\ DofsContiguous(m, "e")
            /\ DofsContiguous(m, "v")
            /\ \A key \in m.model : \A i \in DOMAIN key : DictHas(m.order, key[i])
            /\ hol.recipe = "HolsteinModel" =>
                  /\ Cardinality(DofIndices(m, "e")) = Len(hol.mol_list)
                  /\ Cardinality(DofIndices(m, "v")) = ModesOfFirst(hol.mol_list, Len(hol.mol_list))
            /\ hol.recipe = "SpinBosonModel" =>
                  /\ DofIndices(m, "e") = {0}
                  /\ Cardinality(DofIndices(m, "v")) = hol.mol_list[1]

\* A Holstein model of two molecules with modes, in scheme 2.
C9_Witness ==
    /\ RecipeBuilt
    /\ hol.recipe = "HolsteinModel"
    /\ hol.scheme = 2
    /\ hol.mol_list = <<1, 2>>
    /\ hol.obj.m.order = <<<<Dof("e", 0), 0>>, <<Dof("v", 0), 1>>, <<Dof("e", 1), 2>>,
                           <<Dof("v", 1), 3>>, <<Dof("v", 2), 4>>>>

(***************************************************************************)
(* C10. VibronicModel re-keys the two-level term table: terms under "I"    *)
(* keep their vibrational key and entries; a diagonal key (e_i, e_i)       *)
(* becomes (e_i,) + vib-key with a number operator in front of each entry; *)
(* an off-diagonal key (e_i, e_j) becomes (e_i, e_j) + vib-key with a      *)
(* raising and a lowering operator in front; a "J" sub-key gives one pure   *)
(* electronic entry with that factor.  Every entry under a key has as many *)
(* local operators as the key has DoFs, and no input term is lost or       *)
(* duplicated.                                                             *)
(***************************************************************************)
VibBuilt == vib.made /\ vib.obj.outcome = "ok"

\* The terms of the table: <<item, position>>, position 0 for a "J" factor.
InputTerms ==
    UNION {{<<i, p>> : p \in (IF vib.arg[i].kk.name = "J" THEN {0}
                              ELSE DOMAIN vib.arg[i].vv.terms)} :
           i \in DOMAIN vib.arg}

ClaimedOps(e_k) ==
    IF e_k.name = "I" THEN <<>>
    ELSE IF e_k.dofs[1] = e_k.dofs[2] THEN <<"a^dagger a">>
    ELSE <<"a^dagger", "a">>

ClaimedKey(it) ==
    (IF it.e_k.name = "I" THEN <<>>
     ELSE IF it.e_k.dofs[1] = it.e_k.dofs[2] THEN <<it.e_k.dofs[1]>>
     ELSE it.e_k.dofs) \o it.kk.dofs

ClaimedTerm(it, p) ==
    IF it.kk.name = "J" THEN [ops |-> ClaimedOps(it.e_k), factor |-> it.vv.factor]
    ELSE [ops |-> ClaimedOps(it.e_k) \o it.vv.terms[p].ops,
          factor |-> it.vv.terms[p].factor]

ClaimedPair(o) == <<ClaimedKey(vib.arg[o[1]]), ClaimedTerm(vib.arg[o[1]], o[2])>>

\* The entries of the flat map: <<key item, position>>.
OutputTerms ==
    UNION {{<<k, p>> : p \in DOMAIN vib.obj.model[k][2]} : k \in DOMAIN vib.obj.model}

OutputPair(o) == <<vib.obj.model[o[1]][1], vib.obj.model[o[1]][2][o[2]]>>

RekeyedAsClaimed ==
    /\ \A pair \in {ClaimedPair(o) : o \in InputTerms} \cup {OutputPair(o) : o \in OutputTerms} :
          Cardinality({o \in InputTerms : ClaimedPair(o) = pair})
            = Cardinality({o \in OutputTerms : OutputPair(o) = pair})
    /\ \A i \in DOMAIN vib.arg :
          vib.arg[i].e_k.name = "I" =>
              /\ DictHas(vib.obj.model, vib.arg[i].kk.dofs)
              /\ DictGet(vib.obj.model, vib.arg[i].kk.dofs) = vib.arg[i].vv.terms
    /\ \A o \in OutputTerms : Len(OutputPair(o)[2].ops) = Len(OutputPair(o)[1])

\* C10 as stated: every term table.
C10_Rekeyed == VibBuilt => RekeyedAsClaimed

\* No electronic key holds both "J" and the empty sub-key ().
NoEmptySubKeyBesideJ ==
    \A i, j \in DOMAIN vib.arg :
        ~(/\ vib.arg[i].e_k = vib.arg[j].e_k
          /\ vib.arg[i].kk.name = "J"
          /\ vib.arg[j].kk.name = "tuple"
          /\ vib.arg[j].kk.dofs = <<>>)

\* C10, amended: the re-keying is as claimed for every term table in which
\* no electronic key holds both a "J" sub-key and the empty sub-key ().
C10_RekeyedNoEmptySubKeyBesideJ ==
    (VibBuilt /\ NoEmptySubKeyBesideJ) => RekeyedAsClaimed

\* A diagonal key with a term on v_0 and v_1, and an off-diagonal key with "J".
C10_Witness ==
    /\ VibBuilt
    /\ NoEmptySubKeyBesideJ
    /\ vib.obj.model =
         << << <<Dof("e", 0), Dof("v", 0), Dof("v", 1)>>,
               <<[ops |-> <<"a^dagger a", "x", "x">>, factor |-> 2]>> >>,
            << <<Dof("e", 0), Dof("e", 1)>>,
               <<[ops |-> <<"a^dagger", "a">>, factor |-> 1]>> >> >>

ScalarJBuilt ==
    /\ hol.made
    /\ hol.recipe = "HolsteinModel"
    /\ hol.j.form = "Quantity"
    /\ hol.obj.outcome = "ok"
    /\ Len(hol.mol_list) >= 1

NearestNeighbours(i, j, n, periodic) ==
    \/ Abs(i - j) = 1
    \/ periodic /\ {i, j} = {0, n - 1}

Symmetric(mat) == \A p \in Idx(mat.n) : mat.a[p] = mat.a[<<p[2], p[1]>>]

NeighbourEntries(mat, J, periodic) ==
    \A p \in Idx(mat.n) :
        mat.a[p] = IF NearestNeighbours(p[1], p[2], mat.n, periodic) THEN J ELSE 0

ZeroDiagonal(mat) == \A i \in 0..(mat.n - 1) : mat.a[<<i, i>>] = 0

\* C12 as stated.
C12_NearestNeighbourMatrix ==
    ScalarJBuilt =>
        /\ hol.obj.j_matrix.n = Len(hol.mol_list)
        /\ Symmetric(hol.obj.j_matrix)
        /\ ZeroDiagonal(hol.obj.j_matrix)
        /\ \A p \in Idx(hol.obj.j_matrix.n) :
              p[1] # p[2] =>
                 hol.obj.j_matrix.a[p] =
                    IF NearestNeighbours(p[1], p[2], hol.obj.j_matrix.n, hol.periodic)
                    THEN hol.j.value ELSE 0

\* C12, amended: symmetric, J between nearest neighbours and 0 elsewhere;
\* the diagonal is zero except for one molecule with periodic set, where
\* the single entry (0, 0) is J.
C12_NearestNeighbourMatrixSelfNeighbour ==
    ScalarJBuilt =>
        /\ hol.obj.j_matrix.n = Len(hol.mol_list)
        /\ Symmetric(hol.obj.j_matrix)
        /\ NeighbourEntries(hol.obj.j_matrix, hol.j.value, hol.periodic)
        /\ IF Len(hol.mol_list) = 1 /\ hol.periodic
           THEN hol.obj.j_matrix.a[<<0, 0>>] = hol.j.value
           ELSE ZeroDiagonal(hol.obj.j_matrix)

\* A periodic chain of three molecules: the corners hold J.
C12_Witness ==
    /\ ScalarJBuilt
    /\ hol.periodic
    /\ Len(hol.mol_list) = 3
    /\ hol.j.value = MaxJ
    /\ hol.obj.j_matrix.a[<<0, 2>>] = MaxJ
    /\ hol.obj.j_matrix.a[<<2, 0>>] = MaxJ
    /\ hol.obj.j_matrix.a[<<0, 1>>] = MaxJ
    /\ hol.obj.j_matrix.a[<<1, 1>>] = 0

(***************************************************************************)
(* C13. switch_scheme(s) changes only the site layout: the model it        *)
(* returns has the same mol_list, the same j_matrix and the same periodic  *)
(* flag as the original and scheme = s, it starts with an empty operator   *)
(* cache of its own, and the original model (order, basis, model, scheme   *)
(* and cached operators) is left as it was.                                *)
(***************************************************************************)
C13_SwitchSchemeOnlyLayout ==
    [][(~sw.made /\ sw'.made) =>
          /\ hol' = hol
          /\ mpos' = mpos
          /\ sw'.obj.outcome = "ok" =>
                /\ sw'.mol_list = hol.mol_list
                /\ sw'.obj.j_matrix = hol.obj.j_matrix
                /\ sw'.obj.periodic = hol.obj.periodic
                /\ sw'.obj.scheme = sw'.arg
                /\ sw'.mpos = EmptyDict]_vars

(***************************************************************************)
(* C14. For every Phonon (n_phys_dim >= 1, nqboson >= 1), gs_mps yields    *)
(* nqboson site tensors of shape (1, base, 1), each of unit norm; without  *)
(* max_entangled each tensor has its whole weight on the lowest level      *)
(* (index 0), with max_entangled the weight is equal on all base levels.   *)
(***************************************************************************)
\* base times the squared norm of a tensor (every den is 1 or base).
RECURSIVE SqNormTimesBase(_, _, _)
SqNormTimesBase(ms, base, l) ==
    IF l >= base THEN 0
    ELSE ms.sq[l][1] * (base \div ms.sq[l][2]) + SqNormTimesBase(ms, base, l + 1)

C14_GsMpsGroundState ==
    (ph.made /\ ph.called) =>
        /\ ph.res.outcome = "ok"
        /\ Len(ph.res.tensors) = ph.self.nqboson
        /\ \A i \in DOMAIN ph.res.tensors :
              LET ms == ph.res.tensors[i]
                  base == ph.self.base
              IN  /\ ms.shape = <<1, pbond(ph.self)[i], 1>>
                  /\ SqNormTimesBase(ms, base, 0) = base
                  /\ IF ph.max_entangled
                     THEN \A l \in 0..(base - 1) : ms.sq[l] = <<1, base>>
                     ELSE \A l \in 0..(base - 1) :
                             ms.sq[l] = IF l = 0 THEN <<1, 1>> ELSE <<0, 1>>

=============================================================================
